---- MODULE Spec2Model ----
(***************************************************************************)
(* Model of convert_excel_to_json.py: a one-pass converter that reads the  *)
(* workbook master_price_list.xlsx, keeps and renames five columns, cleans *)
(* the cells, drops incomplete rows and writes the rest as a JSON array to *)
(* public/master_price_list.json.                                          *)
(*                                                                         *)
(* The pandas calls are modelled with the semantics of pandas 1.x / 2.x    *)
(* (object columns, astype(str) turning an empty cell into the text        *)
(* "nan").  Text columns of the modelled workbooks hold text or empty      *)
(* cells; numeric columns hold integers, text or empty cells.              *)
(***************************************************************************)
EXTENDS Integers, Sequences, FiniteSets, TLC

VARIABLES fs, pc, df, err, stdout, run, outAfterRun

vars == <<fs, pc, df, err, stdout, run, outAfterRun>>

(* ------------------------------ bounds --------------------------------- *)

MaxRows == 2
MaxRuns == 2

(* ------------------------------ cells ---------------------------------- *)

NaN == [t |-> "nan"]
Num(k) == [t |-> "num", n |-> k]
Str(chars) == [t |-> "str", s |-> chars]

Whitespace == {" "}

DigitVal == [d \in {"0", "1", "2", "3", "4", "5", "6", "7", "8", "9"} |->
             CASE d = "0" -> 0 [] d = "1" -> 1 [] d = "2" -> 2 [] d = "3" -> 3
               [] d = "4" -> 4 [] d = "5" -> 5 [] d = "6" -> 6 [] d = "7" -> 7
               [] d = "8" -> 8 [] d = "9" -> 9]

(* ------------------------------ paths ---------------------------------- *)

SrcPath == "master_price_list.xlsx"
OutPath == "public/master_price_list.json"
Paths == {SrcPath, OutPath}

Required == <<"Brand", "Part No", "Root Part No", "MRP", "GST%">>
RequiredSet == {Required[i] : i \in 1..Len(Required)}
AllCols == RequiredSet \cup {"Notes"}

Renamed == [c \in RequiredSet |->
            CASE c = "Part No" -> "part_no"
              [] c = "Root Part No" -> "root_part_no"
              [] c = "Brand" -> "brand"
              [] c = "MRP" -> "mrp"
              [] c = "GST%" -> "gst_percent"]

StrCols == {"part_no", "root_part_no", "brand"}
NumCols == {"mrp", "gst_percent"}
OutCols == StrCols \cup NumCols

(* ------------------------- files on disk ------------------------------- *)

Missing == [kind |-> "missing"]
Garbage == [kind |-> "garbage"]
Xlsx(cols, rows) == [kind |-> "xlsx", cols |-> cols, rows |-> rows]
Json(recs, closed) == [kind |-> "json", records |-> recs, complete |-> closed]

JNull == [t |-> "null"]


(* ----------------------- cell conversions ------------------------------ *)

RECURSIVE LStrip(_)
LStrip(s) == IF s # <<>> /\ Head(s) \in Whitespace THEN LStrip(Tail(s)) ELSE s

RECURSIVE RStrip(_)
RStrip(s) == IF s # <<>> /\ s[Len(s)] \in Whitespace
             THEN RStrip(SubSeq(s, 1, Len(s) - 1)) ELSE s

\* mutant of Strip: only the leading whitespace is removed
StripLeftOnly(s) == LStrip(s)

\* str.strip(): leading and trailing whitespace removed
Strip(s) == RStrip(LStrip(s))

\* mutant of AsStr: an empty cell stays missing
AsStrKeepNa(cell) == cell

\* astype(str) on one cell: text stays, an empty cell becomes the text "nan"
AsStr(cell) == IF cell.t = "nan" THEN Str(<<"n", "a", "n">>) ELSE cell

\* .str.strip() on one cell: a missing cell stays missing
StrStrip(cell) == IF cell.t = "str" THEN Str(Strip(cell.s)) ELSE cell

\* .astype(str).str.strip() on one cell
CleanStr(cell) == StrStrip(AsStr(cell))

IsDigits(s) == s # <<>> /\ \A i \in 1..Len(s) : s[i] \in DOMAIN DigitVal

IsNumeral(s) == IF s # <<>> /\ Head(s) = "-" THEN IsDigits(Tail(s)) ELSE IsDigits(s)

RECURSIVE ParseDigits(_)
ParseDigits(s) == IF s = <<>> THEN 0
                  ELSE 10 * ParseDigits(SubSeq(s, 1, Len(s) - 1)) + DigitVal[s[Len(s)]]

ParseNumeral(s) == IF Head(s) = "-" THEN 0 - ParseDigits(Tail(s)) ELSE ParseDigits(s)

\* pd.to_numeric(..., errors='coerce') on one cell
ToNumeric(cell) == CASE cell.t = "num" -> cell
                     [] cell.t = "nan" -> NaN
                     [] cell.t = "str" -> IF IsNumeral(cell.s)
                                          THEN Num(ParseNumeral(cell.s))
                                          ELSE NaN

(* --------------------------- data frames ------------------------------- *)

\* a frame is its column labels in order and its rows; a row keeps its
\* index label (RangeIndex, from 0) through every step
Frame(cols, rows) == [columns |-> cols, rows |-> rows]
NoDf == Frame(<<>>, <<>>)

ColSet(cols) == {cols[i] : i \in 1..Len(cols)}

\* pd.read_excel on a readable workbook
ReadExcel(file) ==
    Frame(file.cols,
          [i \in 1..Len(file.rows) |-> [index |-> i - 1, cells |-> file.rows[i]]])

\* mutant of Project: part_no and root_part_no take each other's column
ProjectSwapped(d) ==
    Frame([i \in 1..Len(Required) |-> Renamed[Required[i]]],
          [i \in 1..Len(d.rows) |->
             [index |-> d.rows[i].index,
              cells |-> [k \in OutCols |->
                           CASE k = "part_no" -> d.rows[i].cells["Root Part No"]
                             [] k = "root_part_no" -> d.rows[i].cells["Part No"]
                             [] OTHER -> d.rows[i].cells[CHOOSE c \in RequiredSet : Renamed[c] = k]]]])

\* df[[...five columns...]].rename(columns={...})
Project(d) ==
    Frame([i \in 1..Len(Required) |-> Renamed[Required[i]]],
          [i \in 1..Len(d.rows) |->
             [index |-> d.rows[i].index,
              cells |-> [k \in OutCols |->
                           d.rows[i].cells[CHOOSE c \in RequiredSet : Renamed[c] = k]]]])

\* lines 15-17: the three text columns are replaced by their cleaned cells
NormalizeStrings(d) ==
    Frame(d.columns,
          [i \in 1..Len(d.rows) |->
             [index |-> d.rows[i].index,
              cells |-> [k \in DOMAIN d.rows[i].cells |->
                           IF k \in StrCols THEN CleanStr(d.rows[i].cells[k])
                           ELSE d.rows[i].cells[k]]]])

\* lines 18-19: the two numeric columns are replaced by their coerced cells
CoerceNumeric(d) ==
    Frame(d.columns,
          [i \in 1..Len(d.rows) |->
             [index |-> d.rows[i].index,
              cells |-> [k \in DOMAIN d.rows[i].cells |->
                           IF k \in NumCols THEN ToNumeric(d.rows[i].cells[k])
                           ELSE d.rows[i].cells[k]]]])

HasNa(row) == \E k \in DOMAIN row.cells : row.cells[k] = NaN

KeepRow(row) == ~HasNa(row)

\* mutant of Dropna: no row is removed
DropnaKeepAll(d) == d

\* df.dropna(): rows with any missing cell removed, order and labels kept
Dropna(d) == Frame(d.columns, SelectSeq(d.rows, KeepRow))

JsonValue(cell) == IF cell.t = "nan" THEN JNull ELSE cell

\* mutant of ToRecords: the rows are emitted last to first
ToRecordsReversed(d) ==
    [i \in 1..Len(d.rows) |->
       [k \in ColSet(d.columns) |-> JsonValue(d.rows[Len(d.rows) + 1 - i].cells[k])]]

\* to_json(orient='records'): one object per row, keyed by column, no index
ToRecords(d) ==
    [i \in 1..Len(d.rows) |->
       [k \in ColSet(d.columns) |-> JsonValue(d.rows[i].cells[k])]]

\* mutant of Overwrite: the records are added to those already in the file
AppendTo(old, recs) ==
    IF old.kind = "json" THEN Json(old.records \o recs, TRUE) ELSE Json(recs, TRUE)

\* what opening the path for writing and writing the document does to a file
Overwrite(old, recs) == Json(recs, TRUE)

(* ------------------------- modelled inputs ----------------------------- *)

MkRow(b, p, r, m, g) ==
    [c \in AllCols |->
       CASE c = "Brand" -> b
         [] c = "Part No" -> p
         [] c = "Root Part No" -> r
         [] c = "MRP" -> m
         [] c = "GST%" -> g
         [] c = "Notes" -> Str(<<"n">>)]

PartP == Str(<<"P">>)
RootR == Str(<<"R">>)

GoodRow == MkRow(Str(<<"A">>), PartP, RootR, Num(100), Num(18))
BadMrpRow == MkRow(Str(<<"B">>), PartP, RootR, Str(<<"a", "b">>), Num(5))
PaddedRow == MkRow(Str(<<" ", "C", " ">>), PartP, RootR, Num(50), Num(12))
NoBrandRow == MkRow(NaN, PartP, RootR, Num(100), Num(18))
BlankBrandRow == MkRow(Str(<<" ">>), PartP, RootR, Num(100), Num(18))
NegativeMrpRow == MkRow(Str(<<"D">>), PartP, RootR, Num(-5), Num(18))
NoGstRow == MkRow(Str(<<"E">>), PartP, RootR, Num(100), NaN)
NoPartRow == MkRow(Str(<<"F">>), NaN, RootR, Num(100), Num(18))
NoRootRow == MkRow(Str(<<"G">>), PartP, NaN, Num(100), Num(18))
TextMrpRow == MkRow(Str(<<"H">>), PartP, RootR, Str(<<"5", "0">>), Num(18))

RowCases == {GoodRow, BadMrpRow, PaddedRow, NoBrandRow, BlankBrandRow,
             NegativeMrpRow, NoGstRow, NoPartRow, NoRootRow, TextMrpRow}

Tables == UNION {[1..n -> RowCases] : n \in 0..MaxRows}

Without(c) == SelectSeq(Required, LAMBDA x : x # c)

Headers == {Required, <<"Notes">> \o Required} \cup {Without(c) : c \in RequiredSet}

Restrict(row, cols) == [c \in ColSet(cols) |-> row[c]]

Workbooks == {Xlsx(h, [i \in 1..Len(t) |-> Restrict(t[i], h)]) : h \in Headers, t \in Tables}

\* an output file left by an earlier conversion of some other workbook
StaleOut == Json(<<[k \in OutCols |-> IF k \in StrCols THEN Str(<<"o">>) ELSE Num(1)]>>, TRUE)

(* ------------------------------ state ---------------------------------- *)

Init ==
    /\ fs \in {[p \in Paths |-> IF p = SrcPath THEN src ELSE out] :
                 src \in Workbooks \cup {Missing, Garbage}, out \in {Missing, StaleOut}}
    /\ pc = "read_excel"
    /\ df = NoDf
    /\ err = "none"
    /\ stdout = <<>>
    /\ run = 1
    /\ outAfterRun = <<>>

\* the run ends: how it ended and what it left at the output path
EndOfRun(status, files) == Append(outAfterRun, [status |-> status, out |-> files[OutPath]])

Abort(e) ==
    /\ pc' = "aborted"
    /\ err' = e
    /\ outAfterRun' = EndOfRun("aborted", fs')

\* mutant of Load: the output file is created before the workbook is read
LoadCreatingOutput ==
    /\ pc = "read_excel"
    /\ \/ /\ fs[SrcPath].kind = "xlsx"
          /\ df' = ReadExcel(fs[SrcPath])
          /\ pc' = "project"
          /\ UNCHANGED <<fs, err, stdout, run, outAfterRun>>
       \/ /\ fs[SrcPath].kind = "missing"
          /\ fs' = [fs EXCEPT ![OutPath] = Json(<<>>, TRUE)]
          /\ UNCHANGED <<df, stdout, run>>
          /\ Abort("FileNotFoundError")
       \/ /\ fs[SrcPath].kind = "garbage"
          /\ UNCHANGED <<fs, df, stdout, run>>
          /\ Abort("ValueError")

\* line 5: df = pd.read_excel('master_price_list.xlsx')
Load ==
    /\ pc = "read_excel"
    /\ \/ /\ fs[SrcPath].kind = "xlsx"
          /\ df' = ReadExcel(fs[SrcPath])
          /\ pc' = "project"
          /\ UNCHANGED <<fs, err, stdout, run, outAfterRun>>
       \/ /\ fs[SrcPath].kind = "missing"
          /\ UNCHANGED <<fs, df, stdout, run>>
          /\ Abort("FileNotFoundError")
       \/ /\ fs[SrcPath].kind = "garbage"
          /\ UNCHANGED <<fs, df, stdout, run>>
          /\ Abort("ValueError")

\* lines 7-13: df = df[[...]].rename(columns={...})
ProjectRename ==
    /\ pc = "project"
    /\ \/ /\ RequiredSet \subseteq ColSet(df.columns)
          /\ df' = Project(df)
          /\ pc' = "strings"
          /\ UNCHANGED <<fs, err, stdout, run, outAfterRun>>
       \/ /\ ~(RequiredSet \subseteq ColSet(df.columns))
          /\ UNCHANGED <<fs, df, stdout, run>>
          /\ Abort("KeyError")

\* lines 15-17: the three astype(str).str.strip() assignments
CleanStrings ==
    /\ pc = "strings"
    /\ df' = NormalizeStrings(df)
    /\ pc' = "numeric"
    /\ UNCHANGED <<fs, err, stdout, run, outAfterRun>>

\* lines 18-19: the two pd.to_numeric(..., errors='coerce') assignments
CleanNumeric ==
    /\ pc = "numeric"
    /\ df' = CoerceNumeric(df)
    /\ pc' = "dropna"
    /\ UNCHANGED <<fs, err, stdout, run, outAfterRun>>

\* line 21: df = df.dropna()
DropRows ==
    /\ pc = "dropna"
    /\ df' = Dropna(df)
    /\ pc' = "to_json"
    /\ UNCHANGED <<fs, err, stdout, run, outAfterRun>>

\* line 23: df.to_json('public/master_price_list.json', orient='records', lines=False)
\* The document is serialised in memory, the path is opened for writing
\* (which empties an existing file) and the document is written to it.
ToJson ==
    /\ pc = "to_json"
    /\ \/ /\ fs' = [fs EXCEPT ![OutPath] = Overwrite(fs[OutPath], ToRecords(df))]
          /\ pc' = "print"
          /\ UNCHANGED <<df, err, stdout, run, outAfterRun>>
       \/ \* the path cannot be opened (no directory, no permission)
          /\ UNCHANGED <<fs, df, stdout, run>>
          /\ Abort("OSError")
       \/ \* the write fails after the open (device full, I/O error)
          /\ \E n \in 0..Len(ToRecords(df)) :
                fs' = [fs EXCEPT ![OutPath] = Json(SubSeq(ToRecords(df), 1, n), FALSE)]
          /\ UNCHANGED <<df, stdout, run>>
          /\ Abort("OSError")

\* line 24: print(f"Converted {len(df)} rows to public/master_price_list.json")
PrintCount ==
    /\ pc = "print"
    /\ stdout' = Append(stdout, Len(df.rows))
    /\ pc' = "done"
    /\ outAfterRun' = EndOfRun("done", fs)
    /\ UNCHANGED <<fs, df, err, run>>

\* the script is invoked again; nothing of the previous process survives
\* but the files
Rerun ==
    /\ pc \in {"done", "aborted"}
    /\ run < MaxRuns
    /\ run' = run + 1
    /\ pc' = "read_excel"
    /\ df' = NoDf
    /\ err' = "none"
    /\ UNCHANGED <<fs, stdout, outAfterRun>>

Next ==
    \/ Load
    \/ ProjectRename
    \/ CleanStrings
    \/ CleanNumeric
    \/ DropRows
    \/ ToJson
    \/ PrintCount
    \/ Rerun

Spec == Init /\ [][Next]_vars

TypeOK ==
    /\ pc \in {"read_excel", "project", "strings", "numeric", "dropna",
               "to_json", "print", "done", "aborted"}
    /\ run \in 1..MaxRuns
    /\ Len(outAfterRun) <= run

(* ------------------------- notions for the properties ------------------ *)

Src == fs[SrcPath]
Out == fs[OutPath]

\* the workbook column a key of the output comes from
SourceCol(k) == CHOOSE c \in RequiredSet : Renamed[c] = k

\* a source cell holds a number or the text of one
Parsable(cell) == cell.t = "num" \/ (cell.t = "str" /\ IsNumeral(cell.s))

\* source row i (from 1) is among the rows of the frame
InDf(i) == \E j \in 1..Len(df.rows) : df.rows[j].index = i - 1

Filtered == pc \in {"to_json", "print", "done"}
Written == pc \in {"print", "done"}

NumbersParse(row) == Parsable(row["MRP"]) /\ Parsable(row["GST%"])
TextPresent(row) == row["Brand"] # NaN /\ row["Part No"] # NaN /\ row["Root Part No"] # NaN

NoEdgeSpace(s) == s = <<>> \/ (Head(s) \notin Whitespace /\ s[Len(s)] \notin Whitespace)

(* ------------------------------ C1 ------------------------------------- *)

\* C1 (as claimed): once the output is written, a source row is in it if and
\* only if its MRP and GST% parse as numbers and its Brand, Part No and Root
\* Part No cells are all present.
C1_FilterAsClaimed ==
    Written =>
        /\ Len(Out.records) = Len(df.rows)
        /\ \A i \in 1..Len(Src.rows) :
              InDf(i) <=> (NumbersParse(Src.rows[i]) /\ TextPresent(Src.rows[i]))

(* ------------------------------ C2 ------------------------------------- *)

C3_NoWriteOnEarlyAbort ==
    /\ [](Filtered => (Src.kind = "xlsx" /\ RequiredSet \subseteq ColSet(Src.cols)))
    /\ [][(pc \in {"read_excel", "project"}) => (fs' = fs)]_vars

C3_Witness ==
    /\ pc = "aborted"
    /\ err = "KeyError"
    /\ Out = StaleOut
    /\ run = 1

(* ------------------------------ C4 ------------------------------------- *)

\* C4 (as claimed): a run that fails in the write leaves the output path
\* exactly as it found it.
C4_AllOrNothingWrite ==
    [][(pc = "to_json" /\ pc' = "aborted") => (fs'[OutPath] = fs[OutPath])]_vars

(* ------------------------------ C5 ------------------------------------- *)

\* C5: the records of the written output come from source rows of strictly
\* increasing position: record j is the record of the j-th kept row, and the
\* kept rows are in the order of the workbook.
C5_OrderPreserved ==
    Written =>
        /\ Len(Out.records) = Len(df.rows)
        /\ \A j \in 1..Len(df.rows) :
              /\ df.rows[j].index + 1 \in 1..Len(Src.rows)
              /\ Out.records[j]["brand"] = CleanStr(Src.rows[df.rows[j].index + 1]["Brand"])
              /\ Out.records[j]["mrp"] = ToNumeric(Src.rows[df.rows[j].index + 1]["MRP"])
        /\ \A j, k \in 1..Len(df.rows) : j < k => df.rows[j].index < df.rows[k].index

C5_Witness ==
    /\ pc = "done"
    /\ Len(Src.rows) >= 2
    /\ Len(Out.records) >= 2
    /\ Out.records[1] # Out.records[2]

(* ------------------------------ C6 ------------------------------------- *)

\* C6 (as claimed): the output has at most as many records as the workbook
\* has rows, as many exactly when no row has a missing or invalid Brand,
\* Part No, Root Part No, MRP or GST%, and the printed count is the number
\* of records written.
C6_CountAsClaimed ==
    pc = "done" =>
        /\ Len(Out.records) <= Len(Src.rows)
        /\ (Len(Out.records) = Len(Src.rows)) <=>
              (\A i \in 1..Len(Src.rows) :
                  NumbersParse(Src.rows[i]) /\ TextPresent(Src.rows[i]))
        /\ stdout[Len(stdout)] = Len(Out.records)

(* ------------------------------ C7 ------------------------------------- *)

\* C7: every record of the written output has exactly the five keys,
\* whatever other columns the workbook has, and each key holds the cleaned
\* value of its own source column in the source row the record comes from.
C7_Projection ==
    Written =>
        /\ Len(Out.records) = Len(df.rows)
        /\ \A j \in 1..Len(Out.records) :
              /\ DOMAIN Out.records[j] = {"brand", "part_no", "root_part_no", "mrp", "gst_percent"}
              /\ \A k \in StrCols :
                    Out.records[j][k] = CleanStr(Src.rows[df.rows[j].index + 1][SourceCol(k)])
              /\ \A k \in NumCols :
                    Out.records[j][k] = ToNumeric(Src.rows[df.rows[j].index + 1][SourceCol(k)])

C7_Witness ==
    /\ pc = "done"
    /\ "Notes" \in ColSet(Src.cols)
    /\ Len(Out.records) >= 1

(* ------------------------------ C8 ------------------------------------- *)

C9_IdempotentRerun ==
    /\ [](\A i, j \in 1..Len(outAfterRun) :
             (outAfterRun[i].status = "done" /\ outAfterRun[j].status = "done")
                => outAfterRun[i].out = outAfterRun[j].out)
    /\ [][\A p \in Paths : (fs'[p] # fs[p]) => (p = OutPath)]_vars

C9_Witness ==
    /\ Len(outAfterRun) = 2
    /\ outAfterRun[1].status = "done"
    /\ outAfterRun[2].status = "done"
    /\ Len(outAfterRun[2].out.records) >= 1

(* ------------------------------ C10 ------------------------------------ *)

\* C10: after the string step every Brand, Part No and Root Part No cell is
\* a text, the text "nan" where the source cell was empty, so after the row
\* filter a source row is kept exactly when its MRP and GST% both parse.
C10_EmptyTextBecomesNan ==
    /\ pc = "numeric" =>
          \A j \in 1..Len(df.rows) : \A k \in StrCols :
              /\ df.rows[j].cells[k].t = "str"
              /\ Src.rows[df.rows[j].index + 1][SourceCol(k)] = NaN
                    => df.rows[j].cells[k] = Str(<<"n", "a", "n">>)
    /\ Filtered =>
          \A i \in 1..Len(Src.rows) : InDf(i) <=> NumbersParse(Src.rows[i])

C10_Witness ==
    /\ pc = "done"
    /\ \E i \in 1..Len(Src.rows) : Src.rows[i]["Brand"] = NaN /\ InDf(i)
    /\ \E j \in 1..Len(Out.records) : Out.records[j]["brand"] = Str(<<"n", "a", "n">>)

====
